---- MODULE Spec2Model ----
(***************************************************************************)
(* Model of the optical-power extraction of LogProcessor.py:               *)
(* classify_logs() walks the log files of the two zones and calls          *)
(* extract_power_info() on each; extract_power_info() cuts the file into   *)
(* segments at the transceiver command lines and runs the port state       *)
(* machine (the closure save_port and the per-line cascade) over each      *)
(* segment.                                                                *)
(*                                                                         *)
(* A log line is modelled after line.strip() as a sequence of columns     *)
(* (what re.split(r'\s{2,}', line) yields), each column a sequence of      *)
(* words separated by single blanks.  The regular expressions of the       *)
(* pattern catalogue are operators over the words of a line.               *)
(*                                                                         *)
(* The file is read line by line: each step of the scanner draws the next  *)
(* line of the file.  The code reads the file whole, but what it does with *)
(* lines[i] depends only on lines[i], on the scanner state and on whether  *)
(* a command line came before, so the behaviours are the same.  Of the     *)
(* lines read the state keeps the command line that opened the segment     *)
(* (lines[start]) and the branch of the cascade that consumed the last     *)
(* line.                                                                   *)
(*                                                                         *)
(* Power values are kept in hundredths of a dBm (-3.20 dBm is -320).       *)
(***************************************************************************)
EXTENDS Integers, Sequences, FiniteSets, TLC

VARIABLES
    run_pc,             \* position in classify_logs
    todo,               \* files glob found in each zone and not yet taken
    vocab,              \* the lines that occur in the logs of this run
    clean_text,         \* the lines of the logs of this run that bear on the device name
    device,             \* extract_power_info: device
    nfiles,             \* files taken so far; the next file is named nfiles + 1
    nread,              \* lines read so far in the whole run
    all_power_info,     \* classify_logs: all_power_info
    written,            \* reports attempted so far, in order
    pc,                 \* position in extract_power_info
    vendor,             \* extract_power_info: vendor
    nlines,             \* lines of this file read so far
    cmd_indices,        \* extract_power_info: cmd_indices, as far as the file is read
    cmd_line,           \* lines[start] of the segment, or EOF past the last line
    branch,             \* the branch of the cascade that consumed the last line
    power_info,         \* extract_power_info: power_info
    current_port,
    tx_power,
    rx_power,
    status,
    is_optical_port,
    command_type,
    table_header_found,
    rx_power_col_idx,
    tx_power_col_idx,
    parsing_power_data,
    seg_cmd,            \* history: tag of the command line that opened the segment
    port_seq,           \* history: interface-name lines met so far in this file
    tx_src,             \* history: port_seq when tx_power was assigned
    rx_src,             \* history: port_seq when rx_power was assigned
    status_src,         \* history: port_seq when status was assigned
    in_alarm,           \* history: an 'Alarm thresholds:' line was the last block marker of this port
    idx,                \* extract_power_info: idx, the number of the segment (0 before the first)
    line,               \* history: the line the loop body took last, EOF if none
    scanned             \* history: <<idx, index in lines>> of every line the loop body took, in order

ctx == <<current_port, tx_power, rx_power, status, is_optical_port, command_type,
         table_header_found, rx_power_col_idx, tx_power_col_idx, parsing_power_data>>
hist == <<seg_cmd, port_seq, tx_src, rx_src, status_src, in_alarm>>
runv == <<run_pc, todo, vocab, clean_text, nfiles, all_power_info, written>>
segv == <<device, idx, line, scanned>>
vars == <<runv, nread, pc, vendor, nlines, cmd_indices, cmd_line, branch, power_info, ctx,
          hist, segv>>

\* ------------------------------------------------------------------ bounds
MaxLines == 4       \* lines read in one run, over all files
MaxFiles == 2       \* files found by glob in one run, over both zones (SpecRun)
MaxText == 3        \* lines of a log that bear on the device name (SpecDevice)

\* ------------------------------------------------------------------ values
None == -99999          \* Python's None where the code holds a number
NoPort == "None"        \* Python's None where the code holds a port name
EOF == <<>>             \* the cursor is past the last line
NoMatch == "NoMatch"    \* re.search() found nothing

MinPower == -5000   \* -50 dBm
MaxPower == 1000    \* 10 dBm

\* float(): the words that Python parses as a number, in hundredths.
NumVal ==
    [w \in {"25", "3.3", "-3.20", "-2.10", "15.00", "10.00", "-50.00", "-50.01",
            "75", "-5", "-60.00"} |->
        CASE w = "25" -> 2500
          [] w = "3.3" -> 330
          [] w = "-3.20" -> -320
          [] w = "-2.10" -> -210
          [] w = "15.00" -> 1500
          [] w = "10.00" -> 1000
          [] w = "-50.00" -> -5000
          [] w = "-50.01" -> -5001
          [] w = "75" -> 7500
          [] w = "-5" -> -500
          [] w = "-60.00" -> -6000]

NumWords == DOMAIN NumVal

\* float(s) of one word; None stands for the ValueError the code catches.
Float(w) == IF w \in NumWords THEN NumVal[w] ELSE None

\* float(columns[i]): a column of several words is no number.
FloatCol(col) == IF Len(col) = 1 THEN Float(col[1]) ELSE None

\* -50 <= val <= 10
\* InRange without the upper bound of the range.
InRangeNoUpper(val) == val # None /\ MinPower <= val

InRange(val) == val # None /\ MinPower <= val /\ val <= MaxPower

\* ------------------------------------------------------------------ lines
Flat(l) ==
    LET RECURSIVE cat(_)
        cat(i) == IF i > Len(l) THEN <<>> ELSE l[i] \o cat(i + 1)
    IN cat(1)

At(w, i) == IF i >= 1 /\ i <= Len(w) THEN w[i] ELSE ""

Min(S) == CHOOSE x \in S : \A y \in S : x <= y

PortA == "GigabitEthernet1/0/1"
PortB == "XGigabitEthernet1/0/2"

LCmdDiag == << <<"display", "transceiver", "diagnosis", "interface">> >>
LCmdDiagPort == << <<"display", "transceiver", "diagnosis", "interface", PortA>> >>
LCmdDetail == << <<"display", "transceiver", "diagnosis", "interface", "detail">> >>
LCmdVerbose == << <<"display", "transceiver", "verbose">> >>
LCmdUndo == << <<"undo", "screen-length", "disable">> >>
LPortA == << <<PortA, "transceiver", "diagnostic", "information:">> >>
LPortB == << <<PortB, "transceiver", "diagnostic", "information:">> >>
LAbsent == << <<"The", "transceiver", "is", "absent.">> >>
LNonOptical == << <<"valid", "only", "on", "optical", "interface.">> >>
LNotSupport == << <<"The", "transceiver", "does", "not", "support", "this", "function.">> >>
LCopper == << <<"Transfer", "Distance(m)", ":", "100(copper)">> >>
LCurrentDiag == << <<"Current", "diagnostic", "parameters:">> >>
LAlarm == << <<"Alarm", "thresholds:">> >>
LHeader == << <<"Temp.">>, <<"Voltage">>, <<"RX", "power">>, <<"TX", "power">> >>
LData == << <<"25">>, <<"3.3">>, <<"-3.20">>, <<"-2.10">> >>
LHigh == << <<"High">>, <<"75">>, <<"10.00">>, <<"-50.00">>, <<"15.00">> >>
LLow == << <<"Low">>, <<"-5">>, <<"NA">>, <<"-60.00">> >>
LTxHigh == << <<"TX", "Power", ":", "15.00", "dBm">> >>
LTx == << <<"TX", "Power", ":", "10.00", "dBm">> >>
LRx == << <<"RX", "Power", ":", "-50.00", "dBm">> >>
LRxLow == << <<"RX", "Power", ":", "-50.01", "dBm">> >>
LTxTwo == << <<"TX", "Power(dBm)", ":", "15.00">>, <<"TX", "Power", ":", "-5">> >>
LPortBoth == << <<PortB, "transceiver", "is", "absent.", "TX", "Power", ":", "10.00", "dBm">> >>
LStatus == << <<"status", "normal">> >>
LText == << <<"Wavelength(nm)", ":", "850">> >>

LineSet ==
    {LCmdDiag, LCmdDiagPort, LCmdDetail, LCmdVerbose, LCmdUndo, LPortA, LPortB,
     LAbsent, LNonOptical, LNotSupport, LCopper, LCurrentDiag, LAlarm, LHeader,
     LData, LHigh, LLow, LTxHigh, LTxTwo, LPortBoth, LTx, LRx, LRxLow, LStatus, LText}

\* The lines of the runs over several files.
RunLines == {LCmdDiagPort, LPortB, LAbsent, LTx, LText}

\* ------------------------------------------------------------------ pattern catalogue
\* The patterns are compiled with re.IGNORECASE: the word sets hold the
\* spellings that occur in the lines above.
TxWords == {"TX", "Tx", "tx"}
RxWords == {"RX", "Rx", "rx"}
PowerWords == {"Power", "power"}
PowerUnitWords == {"Power(dBm)", "power(dBm)"}      \* "power" and "(dBm)" written together
UnitWords == {"(dBm)", "(dBM)"}
SepWords == {":", "="}
PortWords == {PortA, PortB}

\* r'display\s+transceiver\s+diagnosis\s+interface\b'
DiagAt(w, i) ==
    /\ At(w, i) = "display" /\ At(w, i + 1) = "transceiver"
    /\ At(w, i + 2) = "diagnosis" /\ At(w, i + 3) = "interface"

\* r'display\s+transceiver\s+verbose\b'
VerbAt(w, i) ==
    At(w, i) = "display" /\ At(w, i + 1) = "transceiver" /\ At(w, i + 2) = "verbose"

HUAWEI_DIAG_CMD_RE(l) == \E i \in 1..Len(Flat(l)) : DiagAt(Flat(l), i)

HUAWEI_DIAG_DETAIL_CMD_RE(l) ==
    \E i \in 1..Len(Flat(l)) : DiagAt(Flat(l), i) /\ At(Flat(l), i + 4) = "detail"

HUAWEI_VERB_CMD_RE(l) == \E i \in 1..Len(Flat(l)) : VerbAt(Flat(l), i)

H3C_DIAG_CMD_RE(l) == \E i \in 1..Len(Flat(l)) : DiagAt(Flat(l), i)

H3C_VERB_CMD_RE(l) == \E i \in 1..Len(Flat(l)) : VerbAt(Flat(l), i)

\* r'(?:display\s+transceiver\s+(?:diagnosis\s+interface(?:\s+detail)?|verbose)
\*   |undo\s+screen-length\s+disable)'
ALL_TRANSCEIVER_CMD_RE(l) ==
    \E i \in 1..Len(Flat(l)) :
        \/ DiagAt(Flat(l), i)
        \/ VerbAt(Flat(l), i)
        \/ /\ At(Flat(l), i) = "undo" /\ At(Flat(l), i + 1) = "screen-length"
           /\ At(Flat(l), i + 2) = "disable"

\* PORT_RE.search(line): group(1) of the leftmost interface name, or NoMatch.
PORT_RE(l) ==
    LET w == Flat(l)
        S == {i \in 1..Len(w) : w[i] \in PortWords}
    IN IF S = {} THEN NoMatch ELSE w[Min(S)]

\* r'valid\s+only\s+(?:on|for)\s+optical\s+interface\.?'
NON_OPTICAL_RE(l) ==
    LET w == Flat(l) IN
    \E i \in 1..Len(w) :
        /\ At(w, i) = "valid" /\ At(w, i + 1) = "only" /\ At(w, i + 2) \in {"on", "for"}
        /\ At(w, i + 3) = "optical" /\ At(w, i + 4) \in {"interface", "interface."}

\* r'transceiver\s+(?:is\s+)?absent\.?'
ABSENT_RE(l) ==
    LET w == Flat(l) IN
    \E i \in 1..Len(w) :
        /\ At(w, i) = "transceiver"
        /\ \/ At(w, i + 1) \in {"absent", "absent."}
           \/ At(w, i + 1) = "is" /\ At(w, i + 2) \in {"absent", "absent."}

\* r'transceiver\s+(?:does\s+not\s+support|not\s+supported|unsupported)'
NOT_SUPPORT_RE(l) ==
    LET w == Flat(l) IN
    \E i \in 1..Len(w) :
        /\ At(w, i) = "transceiver"
        /\ \/ At(w, i + 1) = "does" /\ At(w, i + 2) = "not" /\ At(w, i + 3) = "support"
           \/ At(w, i + 1) = "not" /\ At(w, i + 2) = "supported"
           \/ At(w, i + 1) = "unsupported"

\* r'Transfer\s+Distance\(m\)\s*:\s*(?:\d+\s*)?\(\s*copper\s*\)'
TRANSFER_DISTANCE_COPPER_RE(l) ==
    LET w == Flat(l) IN
    \E i \in 1..Len(w) :
        /\ At(w, i) = "Transfer" /\ At(w, i + 1) = "Distance(m)" /\ At(w, i + 2) = ":"
        /\ \/ At(w, i + 3) \in {"(copper)", "100(copper)"}
           \/ At(w, i + 3) \in NumWords /\ At(w, i + 4) = "(copper)"

\* r'^Current diagnostic parameters:': anchored, single blanks
RE_CURRENT_DIAG(l) ==
    /\ At(l[1], 1) = "Current" /\ At(l[1], 2) = "diagnostic"
    /\ At(l[1], 3) = "parameters:"

\* r'^Alarm thresholds:'
RE_ALARM_THRESHOLDS(l) == At(l[1], 1) = "Alarm" /\ At(l[1], 2) = "thresholds:"

\* Where the number of a key-value match beginning at word i stands, 0 if the
\* pattern does not match there.  unit: "opt" (?:\s*\(dB[mM]\))?, "req" \(dB[mM]\),
\* "no" none; sep: whether [:=]? is part of the pattern.
NumberAfter(w, i, tag, unit, sep) ==
    LET fused == At(w, i) \in tag /\ At(w, i + 1) \in PowerUnitWords /\ unit # "no"
        a == IF At(w, i) \in tag /\ At(w, i + 1) \in PowerWords THEN i + 2
             ELSE IF fused THEN i + 2
             ELSE 0
        hasUnit == fused \/ (unit # "no" /\ At(w, a) \in UnitWords)
        b == IF ~fused /\ hasUnit THEN a + 1 ELSE a
        c == IF sep /\ At(w, b) \in SepWords THEN b + 1 ELSE b
    IN IF a # 0 /\ (unit = "req" => hasUnit) /\ At(w, c) \in NumWords THEN c ELSE 0

\* group(1) of the leftmost match, or NoMatch
Leftmost(w, tag, unit, sep) ==
    LET S == {i \in 1..Len(w) : NumberAfter(w, i, tag, unit, sep) # 0}
    IN IF S = {} THEN NoMatch ELSE w[NumberAfter(w, Min(S), tag, unit, sep)]

\* r'(?:Current\s+)?(?:TX\s*Power|TxPower)(?:\s*\(dB[mM]\))?\s*[:=]?\s*(-?\d+(?:\.\d+)?)'
TX_POWER_RE(l) == Leftmost(Flat(l), TxWords, "opt", TRUE)

\* r'(?:Current\s+)?(?:RX\s*Power|RxPower)(?:\s*\(dB[mM]\))?\s*[:=]?\s*(-?\d+(?:\.\d+)?)'
RX_POWER_RE(l) == Leftmost(Flat(l), RxWords, "opt", TRUE)

\* r'TX\s*power\s*\(dB[mM]\)\s*(-?\d+(?:\.\d+)?)'
H3C_TABLE_TX_RE(l) == Leftmost(Flat(l), TxWords, "req", FALSE)

\* r'RX\s*power\s*\(dB[mM]\)\s*(-?\d+(?:\.\d+)?)'
H3C_TABLE_RX_RE(l) == Leftmost(Flat(l), RxWords, "req", FALSE)

\* r'(TX|RX|Tx|Rx)\s*Power\s*[:=]?\s*(-?\d+(?:\.\d+)?)': <<group(1).lower(), group(2)>>
\* of the leftmost match
POWER_VALUE_RE(l) ==
    LET w == Flat(l)
        S == {i \in 1..Len(w) : NumberAfter(w, i, TxWords \cup RxWords, "no", TRUE) # 0}
        i == Min(S)
    IN IF S = {} THEN <<NoMatch, NoMatch>>
       ELSE <<IF w[i] \in TxWords THEN "tx" ELSE "rx",
              w[NumberAfter(w, i, TxWords \cup RxWords, "no", TRUE)]>>

\* re.search(r'status\s+(normal|abnormal)', line, re.IGNORECASE): group(1)
STATUS_RE(l) ==
    LET w == Flat(l)
        S == {i \in 1..Len(w) : At(w, i) = "status" /\ At(w, i + 1) \in {"normal", "abnormal"}}
    IN IF S = {} THEN NoMatch ELSE w[Min(S) + 1]

\* 'RX power' in h: the two words, in this case, one blank apart
HasLabel(col, tag) ==
    \E i \in 1..Len(col) : At(col, i) = tag /\ At(col, i + 1) \in {"power", "power(dBm)"}

HasWord(l, words) == \E i \in 1..Len(Flat(l)) : Flat(l)[i] \in words

\* 'Temp.' in line and 'Voltage' in line and 'RX power' in line and 'TX power' in line
IsTableHeader(l) ==
    /\ HasWord(l, {"Temp.", "Temp.(C)"})
    /\ HasWord(l, {"Voltage", "Voltage(V)"})
    /\ \E k \in 1..Len(l) : HasLabel(l[k], "RX")
    /\ \E k \in 1..Len(l) : HasLabel(l[k], "TX")

\* next(i for i, h in enumerate(headers) if tag + ' power' in h), counted from 0;
\* None stands for StopIteration
ColIdx(l, tag) ==
    LET S == {k \in 1..Len(l) : HasLabel(l[k], tag)}
    IN IF S = {} THEN None ELSE Min(S) - 1

\* What the patterns find on each line of LineSet, computed once, with the
\* columns of the line.
Found ==
    [l \in LineSet |->
        [columns |-> l,
         cmd |-> ALL_TRANSCEIVER_CMD_RE(l),
         huawei_diag |-> HUAWEI_DIAG_CMD_RE(l),
         huawei_diag_detail |-> HUAWEI_DIAG_DETAIL_CMD_RE(l),
         huawei_verb |-> HUAWEI_VERB_CMD_RE(l),
         h3c_diag |-> H3C_DIAG_CMD_RE(l),
         h3c_verb |-> H3C_VERB_CMD_RE(l),
         port |-> PORT_RE(l),
         non_optical |-> NON_OPTICAL_RE(l),
         absent |-> ABSENT_RE(l),
         not_support |-> NOT_SUPPORT_RE(l),
         copper |-> TRANSFER_DISTANCE_COPPER_RE(l),
         current_diag |-> RE_CURRENT_DIAG(l),
         alarm |-> RE_ALARM_THRESHOLDS(l),
         header |-> IsTableHeader(l),
         rx_col |-> ColIdx(l, "RX"),
         tx_col |-> ColIdx(l, "TX"),
         tx |-> TX_POWER_RE(l),
         rx |-> RX_POWER_RE(l),
         h3c_tx |-> H3C_TABLE_TX_RE(l),
         h3c_rx |-> H3C_TABLE_RX_RE(l),
         power_value |-> POWER_VALUE_RE(l),
         status |-> STATUS_RE(l)]]

\* ------------------------------------------------------------------ scanner state
\* The local variables of extract_power_info that save_port declares nonlocal,
\* with power_info, as one record.
Cur ==
    [power_info |-> power_info, current_port |-> current_port,
     tx_power |-> tx_power, rx_power |-> rx_power, status |-> status,
     is_optical_port |-> is_optical_port, command_type |-> command_type,
     table_header_found |-> table_header_found,
     rx_power_col_idx |-> rx_power_col_idx, tx_power_col_idx |-> tx_power_col_idx,
     parsing_power_data |-> parsing_power_data,
     seg_cmd |-> seg_cmd, port_seq |-> port_seq,
     tx_src |-> tx_src, rx_src |-> rx_src, status_src |-> status_src,
     in_alarm |-> in_alarm]

\* The assignments at the head of a segment.
\* SegmentLocals that start a segment as if an optical port were open.
SegmentLocalsOptical ==
    [current_port |-> NoPort, tx_power |-> None, rx_power |-> None,
     status |-> "unknown", is_optical_port |-> TRUE, command_type |-> "unknown",
     table_header_found |-> FALSE, rx_power_col_idx |-> None,
     tx_power_col_idx |-> None]

SegmentLocals ==
    [current_port |-> NoPort, tx_power |-> None, rx_power |-> None,
     status |-> "unknown", is_optical_port |-> FALSE, command_type |-> "unknown",
     table_header_found |-> FALSE, rx_power_col_idx |-> None,
     tx_power_col_idx |-> None]

\* --------------------------------------------------------- device name
\* Lines of clean_text, as words: '<', '[', '>', ']' and ':' are words of their own.
TPrompt == <<"<", "SW-ACC-07", ">", "display", "version">>
TSdPrompt == <<"<", "SD-JY-AGG-02", ">">>
TSdBracket == <<"[", "SD-JN-CORE.01", "]">>
TDeviceName == <<"Device", "Name", ":", "DN-EDGE-03">>
TSystemName == <<"System", "Name", ":", "SW-CORE-01">>
TOther == <<"Uptime", "is", "3", "weeks">>
TextLines == {TPrompt, TSdPrompt, TSdBracket, TDeviceName, TSystemName, TOther}

\* Names made of [\w\-] only, and names that begin with SD-JN- or SD-JY-.
WordNames == {"SW-ACC-07", "SD-JY-AGG-02", "DN-EDGE-03", "SW-CORE-01"}
SdNames == {"SD-JY-AGG-02", "SD-JN-CORE.01"}

\* re.search(r'[\[<]([\w\-]+)[\]>]', ...) on one line: group(1) or NoMatch.
PROMPT_RE(w) ==
    IF \E i \in 1..Len(w) : At(w, i) \in {"<", "["} /\ At(w, i + 1) \in WordNames
                             /\ At(w, i + 2) \in {">", "]"}
    THEN w[1 + Min({i \in 1..Len(w) : At(w, i) \in {"<", "["} /\ At(w, i + 1) \in WordNames
                                        /\ At(w, i + 2) \in {">", "]"}})]
    ELSE NoMatch

BRACKET_RE(w) ==
    IF \E i \in 1..Len(w) : At(w, i) \in {"<", "["} /\ At(w, i + 1) \in SdNames
                             /\ At(w, i + 2) \in {">", "]"}
    THEN w[1 + Min({i \in 1..Len(w) : At(w, i) \in {"<", "["} /\ At(w, i + 1) \in SdNames
                                        /\ At(w, i + 2) \in {">", "]"}})]
    ELSE NoMatch

\* The word behind 'tag Name :' on one line, or NoMatch.
NameField(w, tag) ==
    IF \E i \in 1..Len(w) : At(w, i) = tag /\ At(w, i + 1) = "Name" /\ At(w, i + 2) = ":"
                             /\ i + 3 <= Len(w)
    THEN w[3 + Min({i \in 1..Len(w) : At(w, i) = tag /\ At(w, i + 1) = "Name"
                                        /\ At(w, i + 2) = ":" /\ i + 3 <= Len(w)})]
    ELSE NoMatch

DEVICE_NAME_RE(w) == NameField(w, "Device")
SYSTEM_NAME_RE(w) == NameField(w, "System")

\* pattern.search(clean_text): the match on the first line that has one; r
\* holds what the pattern finds on each line.
Search(r) ==
    IF \E i \in 1..Len(r) : r[i] # NoMatch
    THEN r[Min({i \in 1..Len(r) : r[i] # NoMatch})]
    ELSE NoMatch

SearchPrompt(text) == Search([i \in 1..Len(text) |-> PROMPT_RE(text[i])])
SearchBracket(text) == Search([i \in 1..Len(text) |-> BRACKET_RE(text[i])])
SearchDeviceName(text) == Search([i \in 1..Len(text) |-> DEVICE_NAME_RE(text[i])])
SearchSystemName(text) == Search([i \in 1..Len(text) |-> SYSTEM_NAME_RE(text[i])])

\* os.path.basename(fp) of the f-th file.
BaseName(f) == "file" \o ToString(f) \o ".log"

\* Device with the name fields tried before the prompt.
DeviceFieldsFirst(text, f) ==
    IF SearchDeviceName(text) # NoMatch THEN SearchDeviceName(text)
    ELSE IF SearchSystemName(text) # NoMatch THEN SearchSystemName(text)
    ELSE IF SearchPrompt(text) # NoMatch THEN SearchPrompt(text)
    ELSE IF SearchBracket(text) # NoMatch THEN SearchBracket(text)
    ELSE BaseName(f)

\* device = m.group(1) if m else os.path.basename(fp)
Device(text, f) ==
    IF SearchPrompt(text) # NoMatch THEN SearchPrompt(text)
    ELSE IF SearchBracket(text) # NoMatch THEN SearchBracket(text)
    ELSE IF SearchDeviceName(text) # NoMatch THEN SearchDeviceName(text)
    ELSE IF SearchSystemName(text) # NoMatch THEN SearchSystemName(text)
    ELSE BaseName(f)

MarkerStatus == {"non_optical", "absent", "not_supported", "copper_port"}

\* ShouldSave without the condition on the gathered data.
ShouldSaveAnyPort(c) == c.current_port # NoPort

\* The condition under which save_port appends a record.
\* ShouldSave that does not ask for an open port.
ShouldSaveNoPort(c) ==
    c.tx_power # None \/ c.rx_power # None \/ c.status # "unknown"

ShouldSave(c) ==
    /\ c.current_port # NoPort
    /\ (c.tx_power # None \/ c.rx_power # None \/ c.status # "unknown")

\* The dictionary save_port appends; Seq, TXSrc, RXSrc, StatusSrc and SegCmd are history.
PortRecord(c, v, z, f) ==
    [Device |-> device, Vendor |-> v, NetworkType |-> z, Port |-> c.current_port,
     TX_Power |-> c.tx_power, RX_Power |-> c.rx_power, Status |-> c.status,
     CommandType |-> c.command_type, LogFileName |-> f,
     Seq |-> c.port_seq, TXSrc |-> c.tx_src, RXSrc |-> c.rx_src,
     StatusSrc |-> c.status_src, SegCmd |-> c.seg_cmd]

\* ResetPort that leaves the TX value of the closed port in place.
ResetPortKeepsTx(c) ==
    [c EXCEPT !.current_port = NoPort, !.rx_power = None,
              !.status = "unknown", !.is_optical_port = FALSE,
              !.command_type = "unknown", !.table_header_found = FALSE,
              !.rx_power_col_idx = None, !.tx_power_col_idx = None,
              !.parsing_power_data = FALSE,
              !.rx_src = 0, !.status_src = 0, !.in_alarm = FALSE]

\* ResetPort that leaves the table state of the closed port in place.
ResetPortKeepsTable(c) ==
    [c EXCEPT !.current_port = NoPort, !.tx_power = None, !.rx_power = None,
              !.status = "unknown", !.is_optical_port = FALSE,
              !.command_type = "unknown",
              !.parsing_power_data = FALSE,
              !.tx_src = 0, !.rx_src = 0, !.status_src = 0, !.in_alarm = FALSE]

\* The assignments of save_port after the append.
ResetPort(c) ==
    [c EXCEPT !.current_port = NoPort, !.tx_power = None, !.rx_power = None,
              !.status = "unknown", !.is_optical_port = FALSE,
              !.command_type = "unknown", !.table_header_found = FALSE,
              !.rx_power_col_idx = None, !.tx_power_col_idx = None,
              !.parsing_power_data = FALSE,
              !.tx_src = 0, !.rx_src = 0, !.status_src = 0, !.in_alarm = FALSE]

\* save_port that puts the record at the head of the list.
SavePortPrepends(c, v, z, f) ==
    ResetPort(IF ShouldSave(c)
              THEN [c EXCEPT !.power_info = <<PortRecord(c, v, z, f)>> \o c.power_info]
              ELSE c)

save_port(c, v, z, f) ==
    ResetPort(IF ShouldSave(c)
              THEN [c EXCEPT !.power_info = Append(c.power_info, PortRecord(c, v, z, f))]
              ELSE c)

\* The tag a line sets, or old if it matches none of the vendor's patterns.
\* Here and below m is Found[line], what the patterns find on the line.
CommandType(v, m, old) ==
    IF v = "Huawei"
    THEN IF m.huawei_diag THEN "huawei_diag"
         ELSE IF m.huawei_diag_detail THEN "huawei_diag_detail"
         ELSE IF m.huawei_verb THEN "huawei_verb"
         ELSE old
    ELSE IF v = "H3C"
    THEN IF m.h3c_diag THEN "h3c_diag"
         ELSE IF m.h3c_verb THEN "h3c_verb"
         ELSE old
    ELSE old

\* val = float(word); if -50 <= val <= 10: tx_power = val
\* SetTx without the range check and the except clause.
SetTxAnyValue(c, word) ==
    IF word # NoMatch
    THEN [c EXCEPT !.tx_power = Float(word), !.tx_src = c.port_seq]
    ELSE c

\* SetTx that keeps a TX value the port already has.
SetTxFirstWins(c, word) ==
    IF word # NoMatch /\ InRange(Float(word)) /\ c.tx_power = None
    THEN [c EXCEPT !.tx_power = Float(word), !.tx_src = c.port_seq]
    ELSE c

SetTx(c, word) ==
    IF word # NoMatch /\ InRange(Float(word))
    THEN [c EXCEPT !.tx_power = Float(word), !.tx_src = c.port_seq]
    ELSE c

SetRx(c, word) ==
    IF word # NoMatch /\ InRange(Float(word))
    THEN [c EXCEPT !.rx_power = Float(word), !.rx_src = c.port_seq]
    ELSE c

\* SetStatus that also drops the power values read so far.
SetStatusClearsPower(c, s) ==
    [c EXCEPT !.status = s, !.is_optical_port = FALSE, !.status_src = c.port_seq,
              !.tx_power = None, !.rx_power = None]

\* SetStatus that leaves the port optical.
SetStatusStaysOptical(c, s) == [c EXCEPT !.status = s, !.status_src = c.port_seq]

\* A non-optical / absent / not-supported / copper marker.
SetStatus(c, s) ==
    [c EXCEPT !.status = s, !.is_optical_port = FALSE, !.status_src = c.port_seq]

\* RowRx that reads the column of the TX-power label.
RowRxFromTxColumn(c, m) ==
    IF c.tx_power_col_idx # None /\ c.tx_power_col_idx < Len(m.columns)
       /\ InRange(FloatCol(m.columns[c.tx_power_col_idx + 1]))
    THEN [c EXCEPT !.rx_power = FloatCol(m.columns[c.tx_power_col_idx + 1]),
                   !.rx_src = c.port_seq]
    ELSE c

\* val = float(columns[rx_power_col_idx]); if -50 <= val <= 10: rx_power = val
RowRx(c, m) ==
    IF c.rx_power_col_idx # None /\ c.rx_power_col_idx < Len(m.columns)
       /\ InRange(FloatCol(m.columns[c.rx_power_col_idx + 1]))
    THEN [c EXCEPT !.rx_power = FloatCol(m.columns[c.rx_power_col_idx + 1]),
                   !.rx_src = c.port_seq]
    ELSE c

RowTx(c, m) ==
    IF c.tx_power_col_idx # None /\ c.tx_power_col_idx < Len(m.columns)
       /\ InRange(FloatCol(m.columns[c.tx_power_col_idx + 1]))
    THEN [c EXCEPT !.tx_power = FloatCol(m.columns[c.tx_power_col_idx + 1]),
                   !.tx_src = c.port_seq]
    ELSE c

\* TableRow that leaves table_header_found set.
TableRowKeepsHeader(c, m) == RowTx(RowRx(c, m), m)

\* The data row after a table header: table_header_found = False after it.
TableRow(c, m) == [RowTx(RowRx(c, m), m) EXCEPT !.table_header_found = FALSE]

\* The multi-column table header: the column indices, both None on StopIteration.
TableHeader(c, m) ==
    [c EXCEPT !.table_header_found = TRUE,
              !.rx_power_col_idx = IF m.rx_col = None \/ m.tx_col = None
                                   THEN None ELSE m.rx_col,
              !.tx_power_col_idx = IF m.rx_col = None \/ m.tx_col = None
                                   THEN None ELSE m.tx_col]

\* The direct key-value shapes.
DirectKV(c, m) == SetRx(SetTx(c, m.tx), m.rx)

\* The H3C shapes, for vendor H3C only.
H3cKV(c, m, v) == IF v = "H3C" THEN SetRx(SetTx(c, m.h3c_tx), m.h3c_rx) ELSE c

\* FallbackTx without the test that tx_power is still None.
FallbackTxOverwrites(c, m) ==
    IF m.power_value[1] = "tx" THEN SetTx(c, m.power_value[2]) ELSE c

\* The fallback shape, for a field that is still None.
FallbackTx(c, m) ==
    IF c.tx_power = None /\ m.power_value[1] = "tx" THEN SetTx(c, m.power_value[2]) ELSE c

FallbackRx(c, m) ==
    IF c.rx_power = None /\ m.power_value[1] = "rx" THEN SetRx(c, m.power_value[2]) ELSE c

\* status normal / abnormal
StatusToken(c, m) ==
    IF m.status # NoMatch
    THEN [c EXCEPT !.status = m.status, !.status_src = c.port_seq]
    ELSE c

\* The end of the cascade: key-value shapes, the H3C shapes, the fallback, status.
ValueLine(c, m, v) ==
    StatusToken(FallbackRx(FallbackTx(H3cKV(DirectKV(c, m), m, v), m), m), m)

\* The interface-name line: save_port(), then the new port is opened.
OpenPort(c, m, v, z, f) ==
    [save_port(c, v, z, f) EXCEPT !.current_port = m.port,
                                  !.is_optical_port = TRUE,
                                  !.status = "unknown",
                                  !.port_seq = c.port_seq + 1]

\* Branch that tests the status markers before the interface name.
BranchMarkerFirst(c, m) ==
    IF m.non_optical THEN "non_optical"
    ELSE IF m.absent THEN "absent"
    ELSE IF m.not_support THEN "not_supported"
    ELSE IF m.port # NoMatch THEN "port"
    ELSE IF c.current_port # NoPort /\ m.copper THEN "copper_port"
    ELSE IF ~c.is_optical_port THEN "skip"
    ELSE IF m.current_diag THEN "current_diag"
    ELSE IF m.alarm THEN "alarm"
    ELSE IF m.header THEN "header"
    ELSE IF c.table_header_found THEN "row"
    ELSE "value"

\* The branch of the cascade that consumes the line (vendor is always one of
\* 'H3C', 'Huawei').
Branch(c, m) ==
    IF m.port # NoMatch THEN "port"
    ELSE IF m.non_optical THEN "non_optical"
    ELSE IF m.absent THEN "absent"
    ELSE IF m.not_support THEN "not_supported"
    ELSE IF c.current_port # NoPort /\ m.copper THEN "copper_port"
    ELSE IF ~c.is_optical_port THEN "skip"
    ELSE IF m.current_diag THEN "current_diag"
    ELSE IF m.alarm THEN "alarm"
    ELSE IF m.header THEN "header"
    ELSE IF c.table_header_found THEN "row"
    ELSE "value"

\* What branch b does.
Cascade(c, b, m, v, z, f) ==
    CASE b = "port" -> OpenPort(c, m, v, z, f)
      [] b \in MarkerStatus -> SetStatus(c, b)
      [] b = "skip" -> c
      [] b = "current_diag" -> [c EXCEPT !.parsing_power_data = TRUE, !.in_alarm = FALSE]
      [] b = "alarm" -> [c EXCEPT !.parsing_power_data = FALSE,
                                  !.table_header_found = FALSE, !.in_alarm = TRUE]
      [] b = "header" -> TableHeader(c, m)
      [] b = "row" -> TableRow(c, m)
      [] OTHER -> ValueLine(c, m, v)

\* One iteration of `for line in segment`: the scanner state after it.
LoopBody(c, m, v, z, f) ==
    Cascade([c EXCEPT !.command_type = CommandType(v, m, c.command_type)],
            Branch(c, m), m, v, z, f)

\* ------------------------------------------------------------------ actions
\* The scanner variables take the values of record n.
SetCur(n) ==
    /\ power_info' = n.power_info
    /\ current_port' = n.current_port
    /\ tx_power' = n.tx_power
    /\ rx_power' = n.rx_power
    /\ status' = n.status
    /\ is_optical_port' = n.is_optical_port
    /\ command_type' = n.command_type
    /\ table_header_found' = n.table_header_found
    /\ rx_power_col_idx' = n.rx_power_col_idx
    /\ tx_power_col_idx' = n.tx_power_col_idx
    /\ parsing_power_data' = n.parsing_power_data
    /\ seg_cmd' = n.seg_cmd
    /\ port_seq' = n.port_seq
    /\ tx_src' = n.tx_src
    /\ rx_src' = n.rx_src
    /\ status_src' = n.status_src
    /\ in_alarm' = n.in_alarm

\* The frame of extract_power_info before any segment (and after it returned).
NoFrame ==
    [power_info |-> <<>>, parsing_power_data |-> FALSE, seg_cmd |-> "unknown",
     port_seq |-> 0, tx_src |-> 0, rx_src |-> 0, status_src |-> 0,
     in_alarm |-> FALSE] @@ SegmentLocals

CmdLines == {l \in LineSet : Found[l].cmd}

\* The lines the file can continue with; EOF when it ends here.
Following == IF nread < MaxLines THEN vocab \cup {EOF} ELSE {EOF}

\* Line l is read: command lines enter cmd_indices.
Read(l) ==
    /\ nread' = IF l = EOF THEN nread ELSE nread + 1
    /\ nlines' = IF l = EOF THEN nlines ELSE nlines + 1
    /\ cmd_indices' = IF l # EOF /\ Found[l].cmd THEN Append(cmd_indices, nlines)
                      ELSE cmd_indices

\* What does not depend on the logs found.
InitRest ==
    /\ run_pc = "int"
    /\ nfiles = 0
    /\ nread = 0
    /\ all_power_info = <<>>
    /\ written = <<>>
    /\ pc = "idle"
    /\ vendor = "None"
    /\ nlines = 0
    /\ cmd_indices = <<>>
    /\ cmd_line = EOF
    /\ branch = "none"
    /\ power_info = <<>>
    /\ current_port = NoPort
    /\ tx_power = None
    /\ rx_power = None
    /\ status = "unknown"
    /\ is_optical_port = FALSE
    /\ command_type = "unknown"
    /\ table_header_found = FALSE
    /\ rx_power_col_idx = None
    /\ tx_power_col_idx = None
    /\ parsing_power_data = FALSE
    /\ seg_cmd = "unknown"
    /\ port_seq = 0
    /\ tx_src = 0
    /\ rx_src = 0
    /\ status_src = 0
    /\ in_alarm = FALSE
    /\ device = ""
    /\ idx = 0
    /\ line = EOF
    /\ scanned = <<>>

\* A run over at most one log file, of any lines.
Init ==
    /\ todo \in {t \in [{"int", "ext"} -> 0..1] : t["int"] + t["ext"] <= 1}
    /\ vocab = LineSet
    /\ clean_text = <<>>
    /\ InitRest

\* A run over several log files.
InitRun ==
    /\ todo \in {t \in [{"int", "ext"} -> 0..MaxFiles] : t["int"] + t["ext"] <= MaxFiles}
    /\ vocab = RunLines
    /\ clean_text \in {<<>>, <<TSystemName>>}
    /\ InitRest

\* One log file of up to MaxText lines that bear on the device name.
InitDevice ==
    /\ todo = [z \in {"int", "ext"} |-> IF z = "int" THEN 1 ELSE 0]
    /\ vocab = {}
    /\ clean_text \in UNION {[1..n -> TextLines] : n \in 0..MaxText}
    /\ InitRest

\* classify_logs, one iteration of a zone's loop up to the call of
\* extract_power_info: detect_type tells the vendor, or the file is skipped.
NextFile ==
    /\ run_pc \in {"int", "ext"}
    /\ pc = "idle"
    /\ todo[run_pc] > 0
    /\ todo' = [todo EXCEPT ![run_pc] = @ - 1]
    /\ nfiles' = nfiles + 1
    /\ \E dev \in {"H3C", "Huawei", "None"} :
          IF dev = "None"
          THEN UNCHANGED <<pc, vendor, device>>
          ELSE vendor' = dev /\ pc' = "seek" /\ device' = Device(clean_text, nfiles')
    /\ UNCHANGED <<run_pc, vocab, clean_text, nread, all_power_info, written, nlines,
                   cmd_indices, cmd_line, branch, power_info, ctx, hist, idx, line, scanned>>

\* The list of a zone is exhausted.
NextZone ==
    /\ run_pc \in {"int", "ext"}
    /\ pc = "idle"
    /\ todo[run_pc] = 0
    /\ run_pc' = IF run_pc = "int" THEN "ext" ELSE "write_total"
    /\ UNCHANGED <<todo, vocab, clean_text, nfiles, nread, all_power_info, written, pc, vendor,
                   nlines, cmd_indices, cmd_line, branch, power_info, ctx, hist, segv>>

\* WriteTotal whose failure ends the run.
WriteTotalAbortsRun ==
    /\ run_pc = "write_total"
    /\ \E outcome \in {"empty", "written", "failed"} :
          /\ written' = Append(written, <<"total", outcome>>)
          /\ run_pc' = IF outcome = "failed" THEN "done" ELSE "write_power"
    /\ UNCHANGED <<todo, vocab, clean_text, nfiles, nread, all_power_info, pc, vendor, nlines,
                   cmd_indices, cmd_line, branch, power_info, ctx, hist, segv>>

\* write_total_results(all_logs): all_logs is not modelled, any outcome is possible.
WriteTotal ==
    /\ run_pc = "write_total"
    /\ \E outcome \in {"empty", "written", "failed"} :
          written' = Append(written, <<"total", outcome>>)
    /\ run_pc' = "write_power"
    /\ UNCHANGED <<todo, vocab, clean_text, nfiles, nread, all_power_info, pc, vendor, nlines,
                   cmd_indices, cmd_line, branch, power_info, ctx, hist, segv>>

\* write_power_results(all_power_info)
WritePower ==
    /\ run_pc = "write_power"
    /\ \E outcome \in (IF all_power_info = <<>> THEN {"empty"} ELSE {"written", "failed"}) :
          written' = Append(written, <<"power", outcome>>)
    /\ run_pc' = "done"
    /\ UNCHANGED <<todo, vocab, clean_text, nfiles, nread, all_power_info, pc, vendor, nlines,
                   cmd_indices, cmd_line, branch, power_info, ctx, hist, segv>>

\* Seek that opens a segment at the first line of the file, whatever it is.
SeekAnyLine ==
    /\ pc = "seek"
    /\ \E l \in Following :
          /\ Read(l)
          /\ IF l = EOF THEN pc' = "return" /\ cmd_line' = EOF
             ELSE pc' = "begin" /\ cmd_line' = l
    /\ UNCHANGED <<runv, vendor, branch, power_info, ctx, hist, segv>>

\* cmd_indices: the lines before the first command line belong to no segment;
\* a file without a command line returns [].
Seek ==
    /\ pc = "seek"
    /\ \E l \in Following :
          /\ Read(l)
          /\ IF l = EOF THEN pc' = "return" /\ cmd_line' = EOF
             ELSE IF Found[l].cmd THEN pc' = "begin" /\ cmd_line' = l
             ELSE pc' = "seek" /\ cmd_line' = cmd_line
    /\ UNCHANGED <<runv, vendor, branch, power_info, ctx, hist, segv>>

\* The head of `for idx, (start, end) in ...`: the scanner's locals are set.
BeginSegment ==
    /\ pc = "begin"
    /\ SetCur([k \in DOMAIN Cur |->
                  IF k \in DOMAIN SegmentLocals THEN SegmentLocals[k]
                  ELSE IF k = "seg_cmd" THEN CommandType(vendor, Found[cmd_line], "unknown")
                  ELSE Cur[k]])
    /\ pc' = "first"
    /\ idx' = idx + 1
    /\ UNCHANGED <<runv, nread, vendor, nlines, cmd_indices, cmd_line, branch, device, line, scanned>>

\* The first iteration of `for line in segment`: the command line itself.
ScanFirst ==
    /\ pc = "first"
    /\ SetCur(LoopBody(Cur, Found[cmd_line], vendor, run_pc, nfiles))
    /\ branch' = Branch(Cur, Found[cmd_line])
    /\ pc' = "scan"
    /\ cmd_line' = EOF
    /\ line' = cmd_line
    /\ scanned' = Append(scanned, <<idx, nlines - 1>>)     \* lines[start] was read last
    /\ UNCHANGED <<runv, nread, vendor, nlines, cmd_indices, device, idx>>

\* ScanLine that goes on through a command line without ending the segment.
ScanLineThroughCmd ==
    /\ pc = "scan"
    /\ \E l \in Following \ {EOF} :
          /\ Read(l)
          /\ SetCur(LoopBody(Cur, Found[l], vendor, run_pc, nfiles))
          /\ branch' = Branch(Cur, Found[l])
          /\ line' = l
    /\ scanned' = Append(scanned, <<idx, nlines>>)
    /\ UNCHANGED <<runv, pc, vendor, cmd_line, device, idx>>

\* A later iteration of `for line in segment`.
ScanLine ==
    /\ pc = "scan"
    /\ \E l \in Following \ (CmdLines \cup {EOF}) :
          /\ Read(l)
          /\ SetCur(LoopBody(Cur, Found[l], vendor, run_pc, nfiles))
          /\ branch' = Branch(Cur, Found[l])
          /\ line' = l
    /\ scanned' = Append(scanned, <<idx, nlines>>)
    /\ UNCHANGED <<runv, pc, vendor, cmd_line, device, idx>>

\* EndSegment without the save_port() after the loop.
EndSegmentNoFlush ==
    /\ pc = "scan"
    /\ \E l \in Following \cap (CmdLines \cup {EOF}) :
          /\ Read(l)
          /\ cmd_line' = l
          /\ pc' = IF l = EOF THEN "return" ELSE "begin"
    /\ SetCur(Cur)
    /\ branch' = "none"
    /\ line' = EOF
    /\ UNCHANGED <<runv, vendor, device, idx, scanned>>

\* The segment ends at the next command line or at the end of the file:
\* the save_port() after the loop.
EndSegment ==
    /\ pc = "scan"
    /\ \E l \in Following \cap (CmdLines \cup {EOF}) :
          /\ Read(l)
          /\ cmd_line' = l
          /\ pc' = IF l = EOF THEN "return" ELSE "begin"
    /\ SetCur(save_port(Cur, vendor, run_pc, nfiles))
    /\ branch' = "none"
    /\ line' = EOF
    /\ UNCHANGED <<runv, vendor, device, idx, scanned>>

\* An exception inside the try block: the handler prints it.
Raise ==
    /\ pc \in {"seek", "begin", "first", "scan"}
    /\ pc' = "except"
    /\ UNCHANGED <<runv, nread, vendor, nlines, cmd_indices, cmd_line, branch,
                   power_info, ctx, hist, segv>>

\* Return whose caller assigns the list of the file to all_power_info.
ReturnReplaces ==
    /\ pc \in {"return", "except"}
    /\ all_power_info' = power_info
    /\ pc' = "idle"
    /\ vendor' = "None"
    /\ nlines' = 0
    /\ cmd_indices' = <<>>
    /\ cmd_line' = EOF
    /\ branch' = "none"
    /\ SetCur(NoFrame)
    /\ device' = ""
    /\ idx' = 0
    /\ line' = EOF
    /\ scanned' = <<>>
    /\ UNCHANGED <<run_pc, todo, vocab, clean_text, nfiles, nread, written>>

\* `return power_info` (or `return []`), and the caller's
\* all_power_info.extend(power_info).
Return ==
    /\ pc \in {"return", "except"}
    /\ all_power_info' = all_power_info \o power_info
    /\ pc' = "idle"
    /\ vendor' = "None"
    /\ nlines' = 0
    /\ cmd_indices' = <<>>
    /\ cmd_line' = EOF
    /\ branch' = "none"
    /\ SetCur(NoFrame)
    /\ device' = ""
    /\ idx' = 0
    /\ line' = EOF
    /\ scanned' = <<>>
    /\ UNCHANGED <<run_pc, todo, vocab, clean_text, nfiles, nread, written>>

Next ==
    \/ NextFile \/ NextZone \/ WriteTotal \/ WritePower
    \/ Seek \/ BeginSegment \/ ScanFirst \/ ScanLine \/ EndSegment \/ Raise \/ Return

Spec == Init /\ [][Next]_vars

SpecRun == InitRun /\ [][Next]_vars

\* The device name of one file: classify_logs up to the head of extract_power_info.
SpecDevice == InitDevice /\ [][NextFile]_vars

\* ------------------------------------------------------------------ claims
\* The records gathered so far: those of the files done and those of the file
\* being read.
Records ==
    {all_power_info[i] : i \in 1..Len(all_power_info)}
        \cup {power_info[i] : i \in 1..Len(power_info)}

\* A step of the scanner over one line of a segment.
LineStep == pc \in {"first", "scan"} /\ pc' = "scan"

\* A step that calls save_port(): an interface-name line, or the end of a segment.
FlushStep == (LineStep /\ branch' = "port") \/ (pc = "scan" /\ pc' \in {"begin", "return"})

\* The record of the port context of the current state.
ContextRecord ==
    [Device |-> device, Vendor |-> vendor, NetworkType |-> run_pc, Port |-> current_port,
     TX_Power |-> tx_power, RX_Power |-> rx_power, Status |-> status,
     CommandType |-> command_type, LogFileName |-> nfiles,
     Seq |-> port_seq, TXSrc |-> tx_src, RXSrc |-> rx_src,
     StatusSrc |-> status_src, SegCmd |-> seg_cmd]

\* C1: in every record TX_Power and RX_Power are each None or a value v with
\* -50 <= v <= 10 (bounds included); 15.00 dBm never gets into a record.
C1_PowerInRange ==
    \A r \in Records :
        /\ r.TX_Power = None \/ (-5000 <= r.TX_Power /\ r.TX_Power <= 1000)
        /\ r.RX_Power = None \/ (-5000 <= r.RX_Power /\ r.RX_Power <= 1000)

\* A record that holds both bounds of the range, 10.00 and -50.00 dBm.
C1_Witness == \E r \in Records : r.TX_Power = 1000 /\ r.RX_Power = -5000

\* C2: every power value and status of a record was read after the
\* interface-name line of the record's port and before the next interface-name
\* line (Seq numbers the interface-name lines of the file; the Src fields tell
\* behind which of them the value was read).
C2_NoMixing ==
    \A r \in Records :
        /\ r.Seq >= 1
        /\ r.TX_Power # None => r.TXSrc = r.Seq
        /\ r.RX_Power # None => r.RXSrc = r.Seq
        /\ r.Status # "unknown" => r.StatusSrc = r.Seq

\* Two ports in one file: the first has a TX value, the second only an RX value.
C2_Witness ==
    \E i, j \in 1..Len(power_info) :
        /\ i < j
        /\ power_info[i].Port # power_info[j].Port
        /\ power_info[i].TX_Power # None
        /\ power_info[j].TX_Power = None /\ power_info[j].RX_Power # None

\* C3: once a non-optical / absent / not-supported / copper marker was processed
\* for the current port, no line but an interface-name line changes tx_power or
\* rx_power.
C3_MarkedPortKeepsPower ==
    [][(LineStep /\ current_port # NoPort /\ status \in MarkerStatus /\ branch' # "port")
        => (tx_power' = tx_power /\ rx_power' = rx_power)]_vars

\* A port that got a TX value, then a marker, then a further line.
C3_Witness ==
    /\ current_port # NoPort /\ status \in MarkerStatus
    /\ tx_power # None /\ branch = "skip"

\* C4 as claimed: behind an 'Alarm thresholds:' line of an optical port no table
\* row is assigned to tx_power or rx_power.
C4_NoThresholdRowRead ==
    [][(LineStep /\ in_alarm /\ branch' = "row")
        => (tx_power' = tx_power /\ rx_power' = rx_power)]_vars

\* C5 as claimed: every record carries the tag set by the command line of its
\* segment.
C5_RecordCarriesSegmentTag == \A r \in Records : r.CommandType = r.SegCmd

\* C6: a record is appended only by a flush that finds current_port set and a
\* power value or a status other than unknown, and it is the record of that
\* port context; a named port that gathered nothing leaves no record.
C6_RecordOnlyWithData ==
    /\ [](\A r \in Records :
            /\ r.Port # NoPort
            /\ (r.TX_Power # None \/ r.RX_Power # None \/ r.Status # "unknown"))
    /\ [][(pc \in {"begin", "first", "scan"} /\ power_info' # power_info)
            => /\ FlushStep
               /\ current_port # NoPort
               /\ (tx_power # None \/ rx_power # None \/ status # "unknown")
               /\ power_info' = Append(power_info, ContextRecord)]_vars

\* Two interface-name lines were read and the first port left no record.
C6_Witness == pc = "scan" /\ port_seq = 2 /\ power_info = <<>> /\ current_port # NoPort

\* C7: a flush that finds a port with a power value or a status other than
\* unknown appends exactly its record; no port context is in two records; an
\* interface line followed only by 'transceiver is absent.' gives one record.
C7_FlushedOnce ==
    /\ [](\A i, j \in 1..Len(power_info) :
            i # j => power_info[i].Seq # power_info[j].Seq)
    /\ [][(FlushStep /\ current_port # NoPort
             /\ (tx_power # None \/ rx_power # None \/ status # "unknown"))
            => power_info' = Append(power_info, ContextRecord)]_vars

\* The file ended behind an interface line and an absent marker: one record.
C7_Witness ==
    /\ pc = "return" /\ Len(power_info) = 1
    /\ power_info[1].Port = PortA /\ power_info[1].Status = "absent"
    /\ power_info[1].TX_Power = None /\ power_info[1].RX_Power = None

\* C8: a line is read as table data only while table_header_found is set, which
\* only a header line sets, and the flag is cleared by that row: the line behind
\* a data row is never read as table data; while the flag is set on an optical
\* port no line is read as a key-value line.
C8_OneRowPerHeader ==
    /\ [][(LineStep /\ branch' = "row") => (table_header_found /\ ~table_header_found')]_vars
    /\ [][(LineStep /\ ~table_header_found /\ table_header_found') => branch' = "header"]_vars
    /\ [][(LineStep /\ branch = "row") => branch' # "row"]_vars
    /\ [][(LineStep /\ table_header_found /\ is_optical_port) => branch' # "value"]_vars

\* The values of the data row are in, and a later line went on to the key-value
\* shapes.
C8_Witness ==
    /\ branch = "value" /\ rx_power = -320 /\ tx_power = -210 /\ ~table_header_found

\* C9 as claimed: a file whose processing was aborted by an exception adds no
\* record to the result collection.
C9_AbortedFileAddsNothing ==
    [][pc = "except" => all_power_info' = all_power_info]_vars

\* C10: while no command line was found in the file, and when it returns
\* without one, power_info is empty.
C10_NoCommandNoRecord ==
    (pc # "idle" /\ cmd_indices = <<>>) => power_info = <<>>

\* A file of MaxLines lines without a command line returns.
C10_Witness == pc = "return" /\ cmd_indices = <<>> /\ nlines = MaxLines

\* C11: one span per command line, in file order: span k starts at the k-th
\* command line and ends before the next one (the last at the end of the file);
\* every line from the first command line on is scanned once, in order, in the
\* span it lies in; no line before the first command line is scanned.
C11_Segmentation ==
    /\ \A k \in 1..Len(cmd_indices) :
          /\ cmd_indices[k] < nlines
          /\ k > 1 => cmd_indices[k - 1] < cmd_indices[k]
    /\ idx \in (IF pc = "begin" THEN {Len(cmd_indices) - 1}
               ELSE IF pc = "except" THEN {Len(cmd_indices) - 1, Len(cmd_indices)}
               ELSE {Len(cmd_indices)})
    /\ \A j \in 1..Len(scanned) :
          /\ scanned[j][1] \in 1..Len(cmd_indices)
          /\ cmd_indices[scanned[j][1]] <= scanned[j][2]
          /\ scanned[j][1] < Len(cmd_indices) => scanned[j][2] < cmd_indices[scanned[j][1] + 1]
          /\ j > 1 => scanned[j][2] = scanned[j - 1][2] + 1
    /\ (scanned # <<>>) => scanned[1] = <<1, cmd_indices[1]>>
    /\ (pc = "return" /\ cmd_indices # <<>>) => scanned[Len(scanned)][2] = nlines - 1
    /\ (pc = "return" /\ cmd_indices = <<>>) => scanned = <<>>

\* A file with a line before the first command line and two spans, the first of
\* two lines or more, was scanned to its end.
C11_Witness ==
    /\ pc = "return" /\ Len(cmd_indices) = 2
    /\ cmd_indices[1] >= 1 /\ cmd_indices[2] > cmd_indices[1] + 1

\* C12: the device name is the first of: the bracket-delimited prompt token,
\* the 'Device Name:' field, the 'System Name:' field, the base name of the
\* file; it is always a string; a text with only 'System Name: SW-CORE-01'
\* gives 'SW-CORE-01'.
C12_DeviceCascade ==
    pc = "seek" =>
        /\ device \in WordNames \cup SdNames \cup {BaseName(nfiles)}
        /\ (\E i \in 1..Len(clean_text) : clean_text[i] \in {TPrompt, TSdPrompt, TSdBracket})
            => \E i \in 1..Len(clean_text) :
                  /\ clean_text[i] \in {TPrompt, TSdPrompt, TSdBracket}
                  /\ device = clean_text[i][2]
        /\ (\A i \in 1..Len(clean_text) : clean_text[i] \in {TDeviceName, TSystemName, TOther})
            => device = (IF \E i \in 1..Len(clean_text) : clean_text[i] = TDeviceName
                         THEN "DN-EDGE-03"
                         ELSE IF \E i \in 1..Len(clean_text) : clean_text[i] = TSystemName
                         THEN "SW-CORE-01"
                         ELSE BaseName(nfiles))

\* A text with a 'Device Name:' line behind a 'System Name:' line and a prompt
\* behind both was resolved to the prompt's name.
C12_Witness ==
    /\ pc = "seek" /\ clean_text = <<TSystemName, TDeviceName, TPrompt>>
    /\ device = "SW-ACC-07"

\* C13: the data row behind a table header gives rx_power the in-range value of
\* the RX-power column and tx_power that of the TX-power column, never swapped
\* and never the temperature or the voltage; behind the header Temp. / Voltage /
\* RX power / TX power the row 25, 3.3, -3.20, -2.10 gives rx = -3.20 and
\* tx = -2.10 (the row High, 75, 10.00, -50.00, 15.00 gives rx = 10.00,
\* tx = -50.00, a line of fewer columns gives nothing).
C13_RowColumns ==
    /\ [](/\ rx_power \notin {-210, 330} /\ tx_power \notin {-320, 330}
          /\ \A r \in Records : r.RX_Power \notin {-210, 330} /\ r.TX_Power \notin {-320, 330})
    /\ [][(LineStep /\ branch' = "row")
            => <<rx_power', tx_power'>> \in
                  {<<rx_power, tx_power>>, <<-320, -210>>, <<1000, -5000>>}]_vars

\* A record with the values of the data row and no status.
C13_Witness ==
    \E r \in Records : r.RX_Power = -320 /\ r.TX_Power = -210 /\ r.Status = "unknown"

\* C14: a step never removes or changes a record of all_power_info: the
\* collection only grows at its end, by the records of the file that returns,
\* whether it ended normally or by an exception, and the records of a file lie
\* behind those of the files taken before it.
C14_CollectionOnlyGrows ==
    /\ [](\A i, j \in 1..Len(all_power_info) :
            i < j => all_power_info[i].LogFileName <= all_power_info[j].LogFileName)
    /\ [][/\ Len(all_power_info') >= Len(all_power_info)
          /\ SubSeq(all_power_info', 1, Len(all_power_info)) = all_power_info
          /\ all_power_info' # all_power_info
                => /\ pc \in {"return", "except"}
                   /\ \A i \in (Len(all_power_info) + 1)..Len(all_power_info') :
                         all_power_info'[i].LogFileName = nfiles]_vars

\* The collection holds a record of the first file, and behind it a record
\* with a TX value that the second file added.
C14_Witness ==
    /\ Len(all_power_info) >= 2
    /\ all_power_info[1].LogFileName = 1
    /\ all_power_info[Len(all_power_info)].LogFileName = 2
    /\ all_power_info[Len(all_power_info)].TX_Power # None

\* C15 as claimed: a line with a 'status normal' / 'status abnormal' token sets
\* status to that token, whatever the status was before.
C15_StatusTokenAlwaysWins ==
    [][(LineStep /\ current_port # NoPort /\ branch' # "port" /\ STATUS_RE(line') # NoMatch)
        => status' = STATUS_RE(line')]_vars

\* C16 as claimed: the command line of a segment changes command_type only: it
\* flushes no port, opens no port and changes no other field of the context.
C16_CommandLineOnlyTags ==
    [][(pc = "first" /\ pc' = "scan")
        => /\ power_info' = power_info
           /\ current_port' = current_port /\ is_optical_port' = is_optical_port
           /\ tx_power' = tx_power /\ rx_power' = rx_power /\ status' = status
           /\ table_header_found' = table_header_found
           /\ rx_power_col_idx' = rx_power_col_idx
           /\ tx_power_col_idx' = tx_power_col_idx]_vars

\* C17 as claimed: a line gives tx_power or rx_power a value only while
\* in_diagnostic_block (parsing_power_data) is true.
C17_PowerOnlyInDiagnosticBlock ==
    [][(LineStep /\ ((tx_power' # tx_power /\ tx_power' # None)
                      \/ (rx_power' # rx_power /\ rx_power' # None)))
        => parsing_power_data]_vars

\* C18 as claimed: a record whose status is non_optical, absent, not_supported
\* or copper_port has neither a TX nor an RX value.
C18_MarkedRecordHasNoPower ==
    \A r \in Records :
        r.Status \in MarkerStatus => (r.TX_Power = None /\ r.RX_Power = None)

\* The candidates the key-value shapes find on a line for TX and for RX, and
\* whether a word is a number of the valid range.
Valid(w) == w \in NumWords /\ NumVal[w] >= -5000 /\ NumVal[w] <= 1000
TxCandidates(m) ==
    ({m.tx, m.h3c_tx} \cup (IF m.power_value[1] = "tx" THEN {m.power_value[2]} ELSE {}))
        \ {NoMatch}
RxCandidates(m) ==
    ({m.rx, m.h3c_rx} \cup (IF m.power_value[1] = "rx" THEN {m.power_value[2]} ELSE {}))
        \ {NoMatch}

\* What C19 asks of a step that takes the line with findings m.
KeepsOnInvalid(m) ==
    /\ (branch' = "value" /\ TxCandidates(m) # {} /\ \A w \in TxCandidates(m) : ~Valid(w))
            => tx_power' = tx_power
    /\ (branch' = "value" /\ RxCandidates(m) # {} /\ \A w \in RxCandidates(m) : ~Valid(w))
            => rx_power' = rx_power
    /\ (branch' = "row" /\ tx_power_col_idx # None /\ tx_power_col_idx < Len(m.columns)
            /\ \A w \in {m.columns[tx_power_col_idx + 1][1]} :
                   ~Valid(w) \/ Len(m.columns[tx_power_col_idx + 1]) # 1)
            => tx_power' = tx_power
    /\ (branch' = "row" /\ rx_power_col_idx # None /\ rx_power_col_idx < Len(m.columns)
            /\ \A w \in {m.columns[rx_power_col_idx + 1][1]} :
                   ~Valid(w) \/ Len(m.columns[rx_power_col_idx + 1]) # 1)
            => rx_power' = rx_power

\* C19: a candidate value outside [-50, 10], or one that is no number, changes
\* nothing: the field keeps what it held, and the scan goes on.
C19_InvalidValueKeepsField ==
    [][LineStep => KeepsOnInvalid(Found[line'])]_vars

\* A port with TX 10.00 and no RX value took the line Low, -5, NA, -60.00 as
\* the data row of a table: TX is still 10.00 and RX still absent.
C19_Witness ==
    /\ pc = "scan" /\ line = LLow /\ branch = "row"
    /\ tx_power = 1000 /\ rx_power = None

\* C20: right after an interface-name line current_port is the name on the
\* line, is_optical_port is true, status is unknown, tx_power and rx_power are
\* absent, table_header_found is false, both column indices are unset and
\* in_diagnostic_block (parsing_power_data) is false, whatever the context held.
C20_FreshContextAfterPortLine ==
    [][(LineStep /\ PORT_RE(line') # NoMatch)
        => /\ current_port' = PORT_RE(line')
           /\ is_optical_port' /\ status' = "unknown"
           /\ tx_power' = None /\ rx_power' = None
           /\ ~table_header_found'
           /\ rx_power_col_idx' = None /\ tx_power_col_idx' = None
           /\ ~parsing_power_data']_vars

\* The port before held a TX value and a marker status, as its record shows;
\* the line of the next port was just taken.
C20_Witness ==
    /\ pc = "scan" /\ branch = "port" /\ current_port = PortB /\ port_seq = 2
    /\ Len(power_info) = 1
    /\ power_info[1].TX_Power # None /\ power_info[1].Status \in MarkerStatus

\* The marker a line carries, NoMatch if none.
MarkerOn(l) ==
    IF NON_OPTICAL_RE(l) THEN "non_optical"
    ELSE IF ABSENT_RE(l) THEN "absent"
    ELSE IF NOT_SUPPORT_RE(l) THEN "not_supported"
    ELSE IF TRANSFER_DISTANCE_COPPER_RE(l) THEN "copper_port"
    ELSE NoMatch

\* C21: a marker line of an open port (one that is no interface-name line) sets
\* status to its marker, whatever the status was, and clears is_optical_port;
\* it appends no record and leaves current_port, tx_power and rx_power alone.
C21_MarkerOnlySetsStatus ==
    [][(LineStep /\ current_port # NoPort /\ PORT_RE(line') = NoMatch
          /\ MarkerOn(line') # NoMatch)
        => /\ status' = MarkerOn(line') /\ ~is_optical_port'
           /\ power_info' = power_info /\ current_port' = current_port
           /\ tx_power' = tx_power /\ rx_power' = rx_power]_vars

\* A port that had read a TX value took a not-supported marker line.
C21_Witness ==
    /\ pc = "scan" /\ line = LNotSupport /\ current_port = PortA
    /\ status = "not_supported" /\ ~is_optical_port
    /\ tx_power = 1000 /\ power_info = <<>>

\* The in-range values the direct key-value and H3C shapes read on a line.
DirectTx(m) ==
    {NumVal[w] : w \in {x \in {m.tx} \cup (IF vendor = "H3C" THEN {m.h3c_tx} ELSE {}) :
                             Valid(x)}}
DirectRx(m) ==
    {NumVal[w] : w \in {x \in {m.rx} \cup (IF vendor = "H3C" THEN {m.h3c_rx} ELSE {}) :
                             Valid(x)}}

\* What C22 asks of a step that takes a line with findings m.
FallbackOnlyFills(m) ==
    /\ (branch' = "value" /\ m.power_value[1] = "tx"
            /\ (tx_power # None \/ DirectTx(m) # {}))
          => tx_power' \in {tx_power} \cup DirectTx(m)
    /\ (branch' = "value" /\ m.power_value[1] = "rx"
            /\ (rx_power # None \/ DirectRx(m) # {}))
          => rx_power' \in {rx_power} \cup DirectRx(m)
    /\ (branch' = "value" /\ m.power_value[1] = "tx" /\ Valid(m.power_value[2])
            /\ tx_power = None /\ DirectTx(m) = {})
          => tx_power' = NumVal[m.power_value[2]]
    /\ (branch' = "value" /\ m.power_value[1] = "rx" /\ Valid(m.power_value[2])
            /\ rx_power = None /\ DirectRx(m) = {})
          => rx_power' = NumVal[m.power_value[2]]

\* C22: the fallback shape fills a field only if the field is still absent
\* after the table and direct key-value steps of that line; a field that
\* holds a value, or that a direct shape of the line has just set, is never
\* overwritten by a fallback match.
C22_FallbackOnlyFills ==
    [][LineStep => FallbackOnlyFills(Found[line'])]_vars

\* A port with TX 10.00 took the line 'TX Power(dBm) : 15.00  TX Power : -5',
\* whose only in-range TX value is the fallback match -5: TX is still 10.00.
C22_Witness ==
    /\ pc = "scan" /\ line = LTxTwo /\ branch = "value"
    /\ current_port = PortA /\ tx_power = 1000

\* C23: a line with an interface name is taken as an interface-name line
\* only: the port being closed is flushed as it stood before the line (or not
\* at all), and the port being opened starts with status unknown and no power
\* value, whatever marker or power value the line also carries.
C23_PortLineOnly ==
    [][(LineStep /\ PORT_RE(line') # NoMatch)
        => /\ current_port' = PORT_RE(line') /\ status' = "unknown"
           /\ is_optical_port' /\ tx_power' = None /\ rx_power' = None
           /\ power_info' \in {power_info, Append(power_info, ContextRecord)}]_vars

\* The line 'XGigabitEthernet1/0/2 transceiver is absent. TX Power : 10.00 dBm'
\* closed a non-optical port and opened its own: the record of the closed port
\* says non_optical, the new port has status unknown and no TX value.
C23_Witness ==
    /\ pc = "scan" /\ line = LPortBoth /\ branch = "port"
    /\ current_port = PortB /\ status = "unknown" /\ tx_power = None
    /\ Len(power_info) = 1 /\ power_info[1].Port = PortA
    /\ power_info[1].Status = "non_optical" /\ power_info[1].TX_Power = None

\* C24: for a Huawei file the command line 'display transceiver diagnosis
\* interface detail' sets command_type to huawei_diag_detail.
C24_DetailFormTagged ==
    [][(pc = "first" /\ pc' = "scan" /\ vendor = "Huawei" /\ line' = LCmdDetail)
        => command_type' = "huawei_diag_detail"]_vars

\* C25: a report is attempted only when the files of both zones are done and
\* no file is being read; the device-summary report is attempted first and
\* the optical-power report second, each once, and at the end of the run both
\* have been attempted, also when the first attempt failed.
C25_ReportsOnceAtEnd ==
    /\ [](written # <<>>
            => /\ run_pc \in {"write_power", "done"} /\ pc = "idle"
               /\ todo["int"] = 0 /\ todo["ext"] = 0)
    /\ [](/\ Len(written) <= 2
          /\ Len(written) >= 1 => written[1][1] = "total"
          /\ Len(written) = 2 => written[2][1] = "power"
          /\ run_pc = "done" => Len(written) = 2
          /\ run_pc = "write_power" => Len(written) = 1)
    /\ [][written' # written => all_power_info' = all_power_info]_vars

\* The run is over: writing the device-summary report failed, and the
\* optical-power report was written after it.
C25_Witness ==
    /\ run_pc = "done"
    /\ written = << <<"total", "failed">>, <<"power", "written">> >>

\* C26: whenever no port is open, tx_power and rx_power are absent and
\* is_optical_port is false; a line taken while no port is open, other than
\* an interface-name line, sets no power value and appends no record.
C26_NoPortNoPower ==
    /\ [](current_port = NoPort
            => tx_power = None /\ rx_power = None /\ ~is_optical_port)
    /\ [][(LineStep /\ current_port = NoPort /\ PORT_RE(line') = NoMatch)
          => /\ current_port' = NoPort /\ tx_power' = None /\ rx_power' = None
             /\ power_info' = power_info]_vars

\* The second segment of a file took a TX line before any interface-name
\* line, after the first segment had flushed a record: no port is open and
\* there is no TX value.
C26_Witness ==
    /\ pc = "scan" /\ line = LTx /\ idx = 2 /\ Len(power_info) = 1
    /\ current_port = NoPort /\ tx_power = None /\ ~is_optical_port

\* C27: a marker line taken while no port is open appends no record and opens
\* no port; the interface-name line that follows appends no record either and
\* opens its port with status unknown, and so does the end of the segment;
\* every record names a port, and a marker status in a record was set behind
\* the interface-name line of that record.
C27_MarkerBeforePort ==
    /\ [][(LineStep /\ current_port = NoPort /\ PORT_RE(line') = NoMatch
              /\ MarkerOn(line') # NoMatch)
            => power_info' = power_info /\ current_port' = NoPort]_vars
    /\ [][(LineStep /\ current_port = NoPort /\ PORT_RE(line') # NoMatch)
            => power_info' = power_info /\ status' = "unknown"]_vars
    /\ [][(pc = "scan" /\ pc' \in {"begin", "return"} /\ current_port = NoPort)
            => power_info' = power_info]_vars
    /\ [](\A i \in 1..Len(power_info) :
            /\ power_info[i].Port # NoPort
            /\ power_info[i].Status \in MarkerStatus
                  => power_info[i].StatusSrc = power_info[i].Seq)

\* An absent marker was taken before any interface-name line: the status says
\* absent, no port is open and there is no record.
C27_Witness ==
    /\ pc = "scan" /\ line = LAbsent /\ branch = "absent"
    /\ current_port = NoPort /\ status = "absent" /\ power_info = <<>>

\* The in-range value in column i (counted from 0) of a table data row.
RowValue(m, i) ==
    IF i # None /\ i < Len(m.columns) /\ Len(m.columns[i + 1]) = 1
       /\ Valid(m.columns[i + 1][1])
    THEN {NumVal[m.columns[i + 1][1]]}
    ELSE {}

\* What C28 asks of a step that takes a line with findings m.
LastReadingWins(m) ==
    /\ (branch' = "value" /\ DirectTx(m) # {}) => tx_power' \in DirectTx(m)
    /\ (branch' = "value" /\ DirectRx(m) # {}) => rx_power' \in DirectRx(m)
    /\ (branch' = "row" /\ RowValue(m, tx_power_col_idx) # {})
            => tx_power' \in RowValue(m, tx_power_col_idx)
    /\ (branch' = "row" /\ RowValue(m, rx_power_col_idx) # {})
            => rx_power' \in RowValue(m, rx_power_col_idx)

\* C28: an in-range reading of a table data row or of a direct key-value line
\* becomes the value of its field whatever the field held, so at the flush
\* each field holds the last such reading of the port's block.
C28_LastReadingWins ==
    [][LineStep => LastReadingWins(Found[line'])]_vars

\* A port whose table row had given TX -2.10 and RX -3.20 took the line
\* 'TX Power : 10.00 dBm': TX is now 10.00, RX is still the table's -3.20.
C28_Witness ==
    /\ pc = "scan" /\ line = LTx /\ branch = "value"
    /\ current_port # NoPort /\ tx_power = 1000 /\ rx_power = -320

\* C29: the records of a file stand in the order in which their ports were
\* opened (Seq numbers the interface-name lines of the file's segments in
\* segment order, then line order), a scanner step adds at most one record,
\* at the end and for the port opened last, and there are never more records
\* than interface-name lines taken.
C29_RecordsInPortOrder ==
    /\ [](\A i, j \in 1..Len(power_info) :
            i < j => power_info[i].Seq < power_info[j].Seq)
    /\ [](Len(power_info) <= port_seq)
    /\ [][LineStep
            => port_seq' = port_seq + (IF PORT_RE(line') # NoMatch THEN 1 ELSE 0)]_vars
    /\ [][(pc \in {"begin", "first", "scan"} /\ power_info' # power_info)
            => /\ FlushStep
               /\ power_info' = Append(power_info, ContextRecord)
               /\ ContextRecord.Seq = port_seq]_vars

\* A file of two segments is done: each segment opened one port and gave one
\* record, and the record of the first segment stands first.
C29_Witness ==
    /\ pc = "return" /\ idx = 2 /\ port_seq = 2 /\ Len(power_info) = 2
    /\ power_info[1].Seq = 1 /\ power_info[2].Seq = 2

====
